---- MODULE Spec2Model ----
(***************************************************************************)
(* Model of the IRC network supervisor of autobrr                          *)
(* (internal/irc/service.go): the handlers map keyed by (server, nickserv  *)
(* account), the persisted networks and channels, and the handler objects  *)
(* the supervisor creates, reconciles and stops.                           *)
(***************************************************************************)
EXTENDS Integers, Sequences, FiniteSets, TLC

VARIABLES
    networks,   \* repository: persisted network rows, a function id -> network
    channels,   \* repository: persisted channel rows of each network id
    handlers,   \* service.handlers: handlerKey -> Handler (NoHandler: no entry)
    orphans,    \* running handlers whose map entry was overwritten
    exiting,    \* Run tasks of stopped and removed handlers still to return
    cmds,       \* the calls the last supervisor operation made on handlers
    last,       \* the last supervisor operation: its input and its outcome
    started,    \* StartHandlers has run
    stopping,   \* StopHandlers has run
    pool,       \* the network values the API is called with in this behaviour
    cookieStore, \* authHandler.cookieStore: the Options of the shared store
    jar,        \* the session cookie each HTTP client holds
    pending,    \* the login request of each client that is being served
    resp,       \* the last request of each client and the response to it
    loggedIn,   \* per client: its last login succeeded and no logout followed
    announce,   \* an announce line, the indexer parsing it and the outcome
    call,       \* per calling task: the supervisor method it runs and where it is
    lock,       \* service.lock: the task holding it, or Free
    byKey,      \* service.handlers under one key, by reference (0: no entry)
    heap        \* the handler objects created so far, by reference

ircVars == <<networks, channels, handlers, orphans, exiting, cmds, last, started,
             stopping, pool>>

httpVars == <<cookieStore, jar, pending, resp, loggedIn>>

syncVars == <<call, lock, byKey, heap>>

vars == <<ircVars, httpVars, announce, syncVars>>

----------------------------------------------------------------------------
\* Bounds of the model

MaxTasks == 2    \* Run and restart tasks alive at a time
MaxHandlers == 2 \* handler objects created in a behaviour of concurrent calls
MaxRuns == 2     \* Run tasks alive on one handler object

----------------------------------------------------------------------------
\* Domain values

NetIds == {1, 2}
Servers == {"s1", "s2"}
Accounts == {"a1", "a2"}

handlerKey == Servers \X Accounts

\* the key of a map with one handler per server, whatever the account
KeyOfServer(n) == <<n.Server, "a1">>

KeyOf(n) == <<n.Server, n.Account>>

Range(f) == {f[i] : i \in DOMAIN f}

\* strings.ToLower on the channel names of the model
ToLower(s) == IF s = "#A" THEN "#a" ELSE s

chA    == [Name |-> "#a", Password |-> "",  Enabled |-> TRUE]
chAup  == [Name |-> "#A", Password |-> "",  Enabled |-> TRUE]
chB    == [Name |-> "#b", Password |-> "k", Enabled |-> TRUE]
chBoff == [Name |-> "#b", Password |-> "k", Enabled |-> FALSE]


IrcNetwork(id, en, srv, port, tls, pass, inv, acc, pw, chs) ==
    [ID |-> id, Enabled |-> en, Server |-> srv, Port |-> port, TLS |-> tls,
     Pass |-> pass, InviteCommand |-> inv, Account |-> acc, Password |-> pw,
     Channels |-> chs]

NoNetwork == IrcNetwork(0, FALSE, "", 0, FALSE, "", "", "", "", <<>>)

\* the network both ids start from: same server and same nickserv account
BaseNetwork(id) ==
    IrcNetwork(id, TRUE, "s1", 6697, FALSE, "", "", "a1", "p1", <<>>)

----------------------------------------------------------------------------
\* Repository (domain.IrcRepo)

\* the row of a network: the repository keeps the channels in their own table
Row(n) == [n EXCEPT !.Channels = <<>>]

\* FindActiveNetworks: ids of the enabled networks, in id order
RECURSIVE IdsFrom(_, _)
IdsFrom(S, i) ==
    IF i > 2 THEN <<>>
    ELSE (IF i \in S THEN <<i>> ELSE <<>>) \o IdsFrom(S, i + 1)

FindActiveNetworks == IdsFrom({i \in DOMAIN networks : networks[i].Enabled}, 1)

\* CheckExistingNetwork: the persisted network with the server and nickserv
\* account of n, 0 when there is none
CheckExistingNetwork(n) ==
    LET S == {i \in DOMAIN networks : KeyOf(networks[i]) = KeyOf(n)}
    IN  IF S = {} THEN 0 ELSE CHOOSE i \in S : \A j \in S : i <= j

\* StoreChannel: insert the channel, or replace the row of the same name
RepoStoreChannel(rows, ch) ==
    IF \E i \in 1..Len(rows) : rows[i].Name = ch.Name
    THEN [i \in 1..Len(rows) |-> IF rows[i].Name = ch.Name THEN ch ELSE rows[i]]
    ELSE Append(rows, ch)

\* StoreChannel called for the first k channels of chs
RECURSIVE RepoStoreChannels(_, _, _)
RepoStoreChannels(rows, chs, k) ==
    IF k = 0 THEN rows
    ELSE RepoStoreChannel(RepoStoreChannels(rows, chs, k - 1), chs[k])

\* the repository's GetNetworkByID and ListChannels
RepoGetNetworkByID(id) == networks[id]
ListChannels(id) == channels[id]

\* the id StoreNetwork gives to a new row
NewId == CHOOSE i \in NetIds \ DOMAIN networks :
             \A j \in NetIds \ DOMAIN networks : i <= j

----------------------------------------------------------------------------
\* Handler (internal/irc handler): the part of it the supervisor uses

NewHandler(n) ==
    [net |-> n, connected |-> FALSE, running |-> 0, stopped |-> FALSE,
     restarts |-> 0, joined |-> {}]

NoHandler == NewHandler(NoNetwork)

Cmd(key, c, a, b, ok) == [key |-> key, cmd |-> c, arg |-> a, arg2 |-> b, ok |-> ok]

\* the effect of one call on the handler it is made on
HandlerCall(H, c) ==
    CASE c.cmd = "Run"     -> [H EXCEPT !.running = @ + 1]
      [] c.cmd = "Stop"    -> [H EXCEPT !.stopped = TRUE, !.connected = FALSE,
                                        !.joined = {}]
      [] c.cmd = "Restart" -> [H EXCEPT !.restarts = @ + 1]
      [] c.cmd = "JOIN"    -> IF c.ok THEN [H EXCEPT !.joined = @ \cup {ToLower(c.arg)}]
                              ELSE H
      [] c.cmd = "PART"    -> IF c.ok THEN [H EXCEPT !.joined = @ \ {ToLower(c.arg)}]
                              ELSE H
      [] OTHER             -> H

RECURSIVE HandlerCalls(_, _)
HandlerCalls(H, cs) ==
    IF cs = <<>> THEN H ELSE HandlerCalls(HandlerCall(H, Head(cs)), Tail(cs))

\* GetNetwork / SetNetwork / UpdateNetwork of the handler
GetNetwork(H) == H.net
SetNetwork(H, n) == [H EXCEPT !.net = n]

\* the channels a handler joins when it connects
JoinSet(n) == {ToLower(n.Channels[i].Name) :
                  i \in {j \in 1..Len(n.Channels) : n.Channels[j].Enabled}}

\* the Run and restart tasks of a handler
Tasks(H) == H.running + H.restarts

----------------------------------------------------------------------------
\* Supervisor (service): the methods as functions of the handlers map HM and
\* the inputs; each yields the new map, the calls made on handlers, the
\* handlers that left the map while running (lost) and the Run tasks of the
\* handlers it stopped and removed (exits)

Result(HM, cs, path, lost, exits) ==
    [handlers |-> HM, cmds |-> cs, path |-> path, lost |-> lost, exits |-> exits,
     inits |-> {}]

\* the result R of a reconcile that called InitIndexers on the handler under key
InitIndexers(R, key) == [R EXCEPT !.inits = {key}]

\* a new handler is created on the network with the channels ListChannels
\* returned (rows; none when ListChannels failed), stored under the key of
\* the network, and its Run task is launched
AddHandler(n, rows, HM) ==
    LET c   == Cmd(KeyOf(n), "Run", "", "", TRUE)
        old == HM[KeyOf(n)]
    IN  Result([HM EXCEPT ![KeyOf(n)] =
                    HandlerCall(NewHandler([n EXCEPT !.Channels = rows]), c)],
               <<c>>, "start",
               IF old # NoHandler /\ Tasks(old) > 0 THEN <<old>> ELSE <<>>, 0)

startNetwork(n, rows, HM) ==
    LET key == KeyOf(n)
    IN  IF HM[key] # NoHandler
        THEN IF ~HM[key].connected
             THEN LET c == Cmd(key, "Run", "", "", TRUE)
                  IN  Result([HM EXCEPT ![key] = HandlerCall(@, c)], <<c>>,
                             "rerun", <<>>, 0)
             ELSE Result(HM, <<>>, "running", <<>>, 0)
        ELSE AddHandler(n, rows, HM)

\* the handler's channels the network does not list
channelsToLeave(snap, n) ==
    LET expectedChannels == {n.Channels[i].Name : i \in 1..Len(n.Channels)}
        keep(c) == c.Name \notin expectedChannels
    IN  SelectSeq(snap.Channels, keep)

\* the channels of the network the handler does not list
channelsToJoin(snap, n) ==
    LET handlerChannels == {snap.Channels[i].Name : i \in 1..Len(snap.Channels)}
        keep(c) == c.Name \notin handlerChannels
    IN  SelectSeq(n.Channels, keep)

\* the NICK change or NickServ identify of a live reconcile
nickCalls(key, snap, n) ==
    IF snap.Account # n.Account
    THEN <<Cmd(key, "NICK", n.Account, "", TRUE)>>
    ELSE IF snap.Password # n.Password
         THEN <<Cmd(key, "IDENTIFY", n.Account, n.Password, TRUE)>>
         ELSE <<>>

\* liveCalls that returns at the first PART or JOIN that fails
liveCallsStopsAtError(key, snap, n, failing) ==
    LET leave == channelsToLeave(snap, n)
        join  == channelsToJoin(snap, n)
        all   == nickCalls(key, snap, n)
                 \o [i \in 1..Len(leave) |->
                        Cmd(key, "PART", leave[i].Name, "", leave[i].Name \notin failing)]
                 \o [i \in 1..Len(join) |->
                        Cmd(key, "JOIN", join[i].Name, join[i].Password,
                            join[i].Name \notin failing)]
        bad   == {i \in 1..Len(all) : ~all[i].ok}
    IN  IF bad = {} THEN all
        ELSE SubSeq(all, 1, CHOOSE i \in bad : \A j \in bad : i <= j)

\* the calls of a live reconcile, in the order the code makes them; the
\* PART and JOIN of the channels in failing return an error
liveCalls(key, snap, n, failing) ==
    LET leave == channelsToLeave(snap, n)
        join  == channelsToJoin(snap, n)
    IN  nickCalls(key, snap, n)
        \o [i \in 1..Len(leave) |->
               Cmd(key, "PART", leave[i].Name, "", leave[i].Name \notin failing)]
        \o [i \in 1..Len(join) |->
               Cmd(key, "JOIN", join[i].Name, join[i].Password,
                   join[i].Name \notin failing)]

\* restartNeeded with the NickServ password taken for a transport field
restartNeededOnPassword(snap, n) ==
    \/ snap.Server # n.Server
    \/ snap.Port # n.Port
    \/ snap.TLS # n.TLS
    \/ snap.InviteCommand # n.InviteCommand
    \/ snap.Password # n.Password

restartNeeded(snap, n) ==
    \/ snap.Server # n.Server
    \/ snap.Port # n.Port
    \/ snap.TLS # n.TLS
    \/ snap.InviteCommand # n.InviteCommand

\* checkIfNetworkRestartNeeded without the return that follows the restart
checkIfNetworkRestartNeededFallsThrough(n, rows, HM, failing) ==
    LET key == KeyOf(n)
    IN  IF HM[key] # NoHandler
        THEN IF HM[key].connected
             THEN LET snap == GetNetwork(HM[key])
                      cs   == (IF restartNeeded(snap, n)
                               THEN <<Cmd(key, "Restart", "", "", TRUE)>> ELSE <<>>)
                              \o liveCalls(key, snap, n, failing)
                  IN  Result([HM EXCEPT ![key] = SetNetwork(HandlerCalls(@, cs), n)],
                             cs, IF restartNeeded(snap, n) THEN "restart" ELSE "live",
                             <<>>, 0)
             ELSE Result(HM, <<>>, "idle", <<>>, 0)
        ELSE startNetwork(n, rows, HM)

\* checkIfNetworkRestartNeeded without the SetNetwork that ends a live reconcile
checkIfNetworkRestartNeededStale(n, rows, HM, failing) ==
    LET key == KeyOf(n)
    IN  IF HM[key] # NoHandler
        THEN IF HM[key].connected
             THEN LET snap == GetNetwork(HM[key])
                  IN  IF restartNeeded(snap, n)
                      THEN LET c == Cmd(key, "Restart", "", "", TRUE)
                           IN  Result([HM EXCEPT ![key] = HandlerCall(SetNetwork(@, n), c)],
                                      <<c>>, "restart", <<>>, 0)
                      ELSE LET cs == liveCalls(key, snap, n, failing)
                           IN  Result([HM EXCEPT ![key] = HandlerCalls(@, cs)],
                                      cs, "live", <<>>, 0)
             ELSE Result(HM, <<>>, "idle", <<>>, 0)
        ELSE startNetwork(n, rows, HM)

checkIfNetworkRestartNeeded(n, rows, HM, failing) ==
    LET key == KeyOf(n)
    IN  IF HM[key] # NoHandler
        THEN IF HM[key].connected
             THEN LET snap == GetNetwork(HM[key])
                  IN  IF restartNeeded(snap, n)
                      THEN LET c == Cmd(key, "Restart", "", "", TRUE)
                           IN  Result([HM EXCEPT ![key] = HandlerCall(SetNetwork(@, n), c)],
                                      <<c>>, "restart", <<>>, 0)
                      ELSE LET cs == liveCalls(key, snap, n, failing)
                           IN  InitIndexers(
                                   Result([HM EXCEPT ![key] = SetNetwork(HandlerCalls(@, cs), n)],
                                          cs, "live", <<>>, 0), key)
             ELSE Result(HM, <<>>, "idle", <<>>, 0)
        ELSE startNetwork(n, rows, HM)

\* StopAndRemoveNetwork without the delete of the map entry
StopAndRemoveNetworkKeeps(key, HM) ==
    IF HM[key] # NoHandler
    THEN Result([HM EXCEPT ![key] = HandlerCall(@, Cmd(key, "Stop", "", "", TRUE))],
                <<Cmd(key, "Stop", "", "", TRUE)>>, "remove", <<>>, 0)
    ELSE Result(HM, <<>>, "absent", <<>>, 0)

StopAndRemoveNetwork(key, HM) ==
    IF HM[key] # NoHandler
    THEN Result([HM EXCEPT ![key] = NoHandler],
                <<Cmd(key, "Stop", "", "", TRUE)>>, "remove", <<>>, HM[key].running)
    ELSE Result(HM, <<>>, "absent", <<>>, 0)

\* GetNetworkByID: the row with the channel rows appended to its channels
GetNetworkByID(id) ==
    LET network == RepoGetNetworkByID(id)
    IN  [network EXCEPT !.Channels = @ \o ListChannels(network.ID)]

----------------------------------------------------------------------------
\* Inputs

b0 == BaseNetwork(0)

\* the contents of the repository when the service is constructed
Repo(S) == [i \in S |-> BaseNetwork(i)]

\* a behaviour starts from a repository and calls the API with the network
\* values of a pool
Scenario(S, rows, p) == [repo |-> Repo(S), rows |-> rows, pool |-> p]

Scenarios ==
    {Scenario({}, <<>>, {b0, [b0 EXCEPT !.Enabled = FALSE]}),
     Scenario({1}, <<>>, {b0, [b0 EXCEPT !.Enabled = FALSE]}),
     Scenario({1}, <<>>, {[b0 EXCEPT !.Enabled = FALSE, !.Server = "s2"]}),
     Scenario({1}, <<>>, {[b0 EXCEPT !.Enabled = FALSE, !.Account = "a2"]}),
     Scenario({1}, <<>>, {[b0 EXCEPT !.Account = "a2"]}),
     Scenario({1}, <<>>, {[b0 EXCEPT !.Server = "s2"]}),
     Scenario({1}, <<>>, {b0, [b0 EXCEPT !.Port = 7000]}),
     Scenario({1}, <<>>, {b0, [b0 EXCEPT !.TLS = TRUE]}),
     Scenario({1}, <<>>, {b0, [b0 EXCEPT !.Pass = "x"]}),
     Scenario({1}, <<>>, {b0, [b0 EXCEPT !.InviteCommand = "i"]}),
     Scenario({1}, <<>>, {b0, [b0 EXCEPT !.Password = "p2"]}),
     Scenario({1}, <<chA>>, {[b0 EXCEPT !.Channels = <<chA>>]}),
     Scenario({1}, <<chA>>, {[b0 EXCEPT !.Channels = <<chB>>]}),
     Scenario({1}, <<chA>>, {[b0 EXCEPT !.Channels = <<chAup>>]}),
     Scenario({1}, <<chA>>, {[b0 EXCEPT !.Channels = <<chA, chBoff>>]}),
     Scenario({1}, <<chA>>, {b0, [b0 EXCEPT !.Channels = <<chA>>]}),
     Scenario({1}, <<chA>>, {[b0 EXCEPT !.Port = 7000, !.Password = "p2",
                                        !.Channels = <<chB>>]})}

----------------------------------------------------------------------------
\* Announce parsing: the patterns of the indexer definitions
\* (internal/indexer/definitions) and the parser that applies them

\* characters and character classes of the patterns
Digits == {"0", "1", "2", "3", "4", "5", "6", "7", "8", "9"}

Letters ==
    {"a", "b", "c", "d", "e", "f", "g", "h", "i", "j", "k", "l", "m", "n", "o",
     "p", "q", "r", "s", "t", "u", "v", "w", "x", "y", "z", "A", "B", "C", "D",
     "E", "F", "G", "H", "I", "J", "K", "L", "M", "N", "O", "P", "Q", "R", "S",
     "T", "U", "V", "W", "X", "Y", "Z"}

CharAt(s, i) == SubSeq(s, i, i)

InClass(c, class) ==
    CASE class = "."            -> c # "\n"
      [] class = "\\s"          -> c \in {" ", "\t", "\n", "\r", "\f"}
      [] class = "\\d"          -> c \in Digits
      [] class = "[0-9a-zA-Z]"  -> c \in Digits \cup Letters
      [] class = "[&\\?]"       -> c \in {"&", "?"}
      [] OTHER                  -> FALSE

\* the nodes of a pattern: a literal, one character of a class, a repeated
\* class (at least min times, greedy or lazy), an optional literal, the ends
\* of capture group g, an optional non-capturing group, the start of the line
Lit(str)                 == [t |-> "lit", s |-> str]
One(class)               == [t |-> "one", class |-> class]
Rep(class, min, greedy)  == [t |-> "rep", class |-> class, min |-> min, greedy |-> greedy]
Opt(str)                 == [t |-> "opt", s |-> str]
Open(g)                  == [t |-> "open", g |-> g]
Close(g)                 == [t |-> "close", g |-> g]
OptGroup(body)           == [t |-> "optgroup", body |-> body]
Bol                      == [t |-> "bol"]

\* a capture group of the forms (.*), (.*?), (\d+), ...
Group(g, class, min, greedy) == <<Open(g), Rep(class, min, greedy), Close(g)>>

MaxGroups == 7

NoMatch == [ok |-> FALSE, caps |-> <<>>]

\* the number of characters of the class that follow position pos
Run(s, pos, class) ==
    LET other == {j \in pos..Len(s) : ~InClass(CharAt(s, j), class)}
    IN  IF other = {} THEN Len(s) - pos + 1
        ELSE (CHOOSE j \in other : \A i \in other : j <= i) - pos

IsMatch(r) == r.ok

FirstMatch(results) ==
    LET found == SelectSeq(results, IsMatch)
    IN  IF found = <<>> THEN NoMatch ELSE found[1]

\* backtracking match of the nodes re at position pos of s: of the
\* alternatives of a node, the first that lets the rest of the pattern match
\* wins; a repetition tries the longest run first when greedy, the shortest
\* first when lazy
RECURSIVE Match(_, _, _, _)
Match(re, s, pos, st) ==
    IF re = <<>> THEN [ok |-> TRUE, caps |-> st.caps]
    ELSE LET n    == Head(re)
             rest == Tail(re)
         IN  CASE n.t = "lit" ->
                    IF /\ pos + Len(n.s) - 1 <= Len(s)
                       /\ SubSeq(s, pos, pos + Len(n.s) - 1) = n.s
                    THEN Match(rest, s, pos + Len(n.s), st)
                    ELSE NoMatch
               [] n.t = "one" ->
                    IF pos <= Len(s) /\ InClass(CharAt(s, pos), n.class)
                    THEN Match(rest, s, pos + 1, st)
                    ELSE NoMatch
               [] n.t = "rep" ->
                    LET m == Run(s, pos, n.class)
                        k(i) == IF n.greedy THEN m - i + 1 ELSE n.min + i - 1
                    IN  FirstMatch([i \in 1..(m - n.min + 1) |->
                                       Match(rest, s, pos + k(i), st)])
               [] n.t = "opt" ->
                    LET with == Match(<<Lit(n.s)>> \o rest, s, pos, st)
                    IN  IF with.ok THEN with ELSE Match(rest, s, pos, st)
               [] n.t = "optgroup" ->
                    LET with == Match(n.body \o rest, s, pos, st)
                    IN  IF with.ok THEN with ELSE Match(rest, s, pos, st)
               [] n.t = "open" ->
                    Match(rest, s, pos, [st EXCEPT !.start[n.g] = pos])
               [] n.t = "close" ->
                    Match(rest, s, pos,
                          [st EXCEPT !.caps[n.g] = SubSeq(s, st.start[n.g], pos - 1)])
               [] n.t = "bol" ->
                    IF pos = 1 THEN Match(rest, s, pos, st) ELSE NoMatch

\* FindStringSubmatch: the leftmost match; a group that did not take part
\* in the match is the empty string
FindStringSubmatch(re, s) ==
    LET st    == [start |-> [g \in 1..MaxGroups |-> 0],
                  caps  |-> [g \in 1..MaxGroups |-> ""]]
        first == Match(re, s, 1, st)
    IN  IF first.ok THEN first
        ELSE FirstMatch([i \in 1..Len(s) |-> Match(re, s, i + 1, st)])

\* an indexer definition: parse.lines[0].pattern, parse.lines[0].vars and
\* parse.match.torrenturl
Definition(id, pattern, names, torrenturl) ==
    [id |-> id, pattern |-> pattern, vars |-> names, torrenturl |-> torrenturl]

RedPattern ==
    Group(1, ".", 0, TRUE) \o <<Lit(" ")>>
    \o <<OptGroup(<<Lit("[")>> \o Group(2, ".", 0, TRUE) \o <<Lit("] [")>>
                  \o Group(3, ".", 0, TRUE) \o <<Lit("] - ")>>
                  \o Group(4, ".", 0, TRUE))>>
    \o <<Lit(" -"), Rep("\\s", 1, TRUE), Lit("http"), Opt("s"), Lit(":"),
         Rep(".", 0, TRUE), One("[&\\?]"), Lit("id=")>>
    \o Group(5, "\\d", 1, TRUE) \o <<Lit(" / ")>>
    \o <<Open(6), Lit("http"), Opt("s"), Lit("://"), Rep(".", 0, TRUE), Close(6)>>
    \o <<Rep("\\s", 0, TRUE), Lit(" -"), Rep("\\s", 0, TRUE)>>
    \o Group(7, ".", 0, TRUE)

\* RedVars with the names of the second and third group exchanged
RedVarsSwapped == <<"torrentName", "category", "year", "releaseTags", "torrentId",
                    "baseUrl", "tags">>

RedVars == <<"torrentName", "year", "category", "releaseTags", "torrentId",
             "baseUrl", "tags">>

DigitalcorePattern ==
    <<Bol, Lit("NEW"), One("."), Lit("TORRENT"), One("."), Lit("in"), One(".")>>
    \o Group(1, ".", 0, FALSE) \o <<One("."), Lit("::"), One(".")>>
    \o Group(2, ".", 0, FALSE) \o <<One("."), Lit("::"), One(".")>>
    \o Group(3, ".", 0, TRUE) \o <<Lit("/")>>
    \o Group(4, "[0-9a-zA-Z]", 1, TRUE)

DigitalcoreVars == <<"category", "torrentName", "baseUrl", "torrentId">>

RedTorrentUrl ==
    "{{ .baseUrl }}&authkey={{ .authkey }}&torrent_pass={{ .torrent_pass }}"

\* DigitalcoreTorrentUrl without the torrentId segment
DigitalcoreTorrentUrlNoId == "{{ .baseUrl }}/{{ .passkey }}"

DigitalcoreTorrentUrl == "{{ .baseUrl }}/{{ .torrentId }}/{{ .passkey }}"

Red == Definition("redacted", RedPattern, RedVars, RedTorrentUrl)

Digitalcore ==
    Definition("digitalcore", DigitalcorePattern, DigitalcoreVars,
               DigitalcoreTorrentUrl)

\* the first position from which sub occurs in s, 0 when it does not
IndexOf(sub, s) ==
    LET at == {i \in 1..(Len(s) - Len(sub) + 1) : SubSeq(s, i, i + Len(sub) - 1) = sub}
    IN  IF at = {} THEN 0 ELSE CHOOSE i \in at : \A j \in at : i <= j

Lookup(vals, name) == IF name \in DOMAIN vals THEN vals[name] ELSE ""

\* the template with each {{ .name }} replaced by the value of name, by
\* the empty string when name has no value
RECURSIVE Render(_, _)
Render(tpl, vals) ==
    LET i == IndexOf("{{ .", tpl)
    IN  IF i = 0 THEN tpl
        ELSE LET after == SubSeq(tpl, i + 4, Len(tpl))
                 j     == IndexOf(" }}", after)
             IN  IF j = 0 THEN tpl
                 ELSE SubSeq(tpl, 1, i - 1)
                      \o Lookup(vals, SubSeq(after, 1, j - 1))
                      \o Render(SubSeq(after, j + 3, Len(after)), vals)

\* the captured groups bound to the names of the definition, by position
Bind(names, caps) == [name \in Range(names) |->
                        caps[CHOOSE i \in 1..Len(names) : names[i] = name]]

\* the union of the captured variables and the settings of the indexer; a
\* captured variable wins over a setting of the same name
Union(captured, settings) ==
    [name \in DOMAIN captured \cup DOMAIN settings |->
        IF name \in DOMAIN captured THEN captured[name] ELSE settings[name]]

HasScheme(url) == IndexOf("://", url) > 1

Outcome(status, url, vals) == [status |-> status, url |-> url, vars |-> vals]

\* the parse of a line with a definition and the settings of the indexer
ParseLine(def, line, settings) ==
    LET m == FindStringSubmatch(def.pattern, line)
    IN  IF ~m.ok THEN Outcome("NotApplicable", "", <<>>)
        ELSE LET vals == Union(Bind(def.vars, m.caps), settings)
                 url  == Render(def.torrenturl, vals)
             IN  IF url = "" \/ ~HasScheme(url)
                 THEN Outcome("InvalidRelease", url, vals)
                 ELSE Outcome("Release", url, vals)

\* the announce lines of the two sites, built from their parts
RedLine(name, year, category, id, tags) ==
    name \o " [" \o year \o "] [" \o category
    \o "] - FLAC / Lossless / Log / 100% / Cue / CD - https://redacted.ch/torrents.php?id="
    \o id \o " / https://redacted.ch/torrents.php?action=download&id=" \o id
    \o " - " \o tags

DigitalcoreLine(category, name, id) ==
    "NEW TORRENT in " \o category \o " :: " \o name
    \o " :: https://digitalcore.club/api/v1/torrents/download/" \o id

RedParts ==
    [torrentName : {"Artist - Album",
                    "A really long name here - Concertos 5 and 6, Suite No 2"},
     year : {"2008", "1991"}, category : {"Single", "Album"},
     torrentId : {"123", "0000000"},
     tags : {"hip.hop,rhythm.and.blues,2000s", "classical"}]

DigitalcoreParts ==
    [category : {"Movies/XviD", "TV"},
     torrentName : {"This.is.my.Movie.2019.BRRip.XviD.AC3-iND", "Other.Movie-GRP"},
     torrentId : {"00000", "a1B2"}]

\* the settings a user gave to an indexer
RedSettings ==
    {[authkey |-> "AK", torrent_pass |-> "TP"],
     [authkey |-> "AK"],
     [authkey |-> "AK", torrent_pass |-> "TP", baseUrl |-> "http://localhost"]}

DigitalcoreSettings == {[passkey |-> "PK"], [passkey |-> "PK", torrentId |-> "1"]}

DefinitionOf(id) == IF id = "redacted" THEN Red ELSE Digitalcore

SettingsOf(id) == IF id = "redacted" THEN RedSettings ELSE DigitalcoreSettings

NotParsed == Outcome("", "", <<>>)

\* a line announced on a channel, its parts, and the indexer it is given to
\* with the settings of that indexer
Announce(id, line, parts, settings, outcome) ==
    [indexer |-> id, line |-> line, parts |-> parts, settings |-> settings,
     outcome |-> outcome]

NotAnnounced == Announce("", "", <<>>, <<>>, NotParsed)

AnnounceLines ==
    {<<RedLine(q.torrentName, q.year, q.category, q.torrentId, q.tags), q>> :
        q \in RedParts}
    \cup {<<DigitalcoreLine(q.category, q.torrentName, q.torrentId), q>> :
             q \in DigitalcoreParts}

----------------------------------------------------------------------------
\* HTTP authentication (internal/http/auth.go): authHandler and the cookie
\* session store it shares between requests

Clients == {"c1", "c2"}

\* sessions.Options, the attributes of the cookies a store issues
Options(httpOnly, sameSite, secure) ==
    [HttpOnly |-> httpOnly, SameSite |-> sameSite, Secure |-> secure]

\* the Options of a new cookie store
NewCookieStore == Options(FALSE, "", FALSE)

\* a user_session cookie: the encoded value of "authenticated" ("unset" when
\* the session has no such value) and the attributes it was issued with
Cookie(v, o) == [set |-> TRUE, authenticated |-> v, attrs |-> o]

NoCookie == [set |-> FALSE, authenticated |-> "unset", attrs |-> NewCookieStore]

\* cookieStore.Get: a session with the values decoded from the cookie of the
\* request and a copy of the Options the store has at the time of the call
SessionGet(cookie, opts) ==
    [Values |-> IF cookie.set THEN cookie.authenticated ELSE "unset",
     Options |-> opts]

\* session.Save: the Set-Cookie header of the response
SessionSave(session) == Cookie(session.Values, session.Options)

\* a login request: whether its body decodes, whether the auth service
\* accepts its credentials, its X-Forwarded-Proto header and its cookie
LoginRequest(decodes, valid, proto, cookie) ==
    [decodes |-> decodes, valid |-> valid, proto |-> proto, cookie |-> cookie]

NoRequest == LoginRequest(FALSE, FALSE, "", NoCookie)

Protos == {"", "https"}

\* a response: its status, its Set-Cookie header (NoCookie: none) and
\* whether the auth service was called
Response(status, cookie, called) ==
    [status |-> status, cookie |-> cookie, called |-> called]

\* login, first part: the Options of the shared store are set from the request
loginOptions(r, opts) ==
    LET o == [opts EXCEPT !.HttpOnly = TRUE, !.SameSite = "Lax"]
    IN  IF r.proto = "https"
        THEN [o EXCEPT !.Secure = TRUE, !.SameSite = "Strict"]
        ELSE o

\* loginSession with the session saved before the auth service has answered
loginSessionSavesFirst(r, opts) ==
    LET session == SessionGet(r.cookie, opts)
        saved   == SessionSave([session EXCEPT !.Values = "true"])
    IN  IF ~r.valid
        THEN Response(401, saved, TRUE)
        ELSE Response(204, saved, TRUE)

\* login, second part: the session is read, the auth service is called and
\* the session is saved when the credentials are accepted
loginSession(r, opts) ==
    LET session == SessionGet(r.cookie, opts)
    IN  IF ~r.valid
        THEN Response(401, NoCookie, TRUE)
        ELSE Response(204, SessionSave([session EXCEPT !.Values = "true"]), TRUE)

\* logout with the session saved as it was read
logoutKeeps(cookie, opts) ==
    LET session == SessionGet(cookie, opts)
    IN  Response(204, SessionSave(session), FALSE)

logout(cookie, opts) ==
    LET session == SessionGet(cookie, opts)
    IN  Response(204, SessionSave([session EXCEPT !.Values = "false"]), FALSE)

test(cookie, opts) ==
    LET session == SessionGet(cookie, opts)
    IN  IF session.Values # "true"
        THEN Response(403, NoCookie, FALSE)
        ELSE Response(204, NoCookie, FALSE)

\* the last request of a client: its kind, the request, the cookie the client
\* held before it and the response
Served(kind, r, before, response) ==
    [kind |-> kind, req |-> r, before |-> before, response |-> response]

NotServed == Served("", NoRequest, NoCookie, Response(0, NoCookie, FALSE))

HttpInit ==
    /\ cookieStore = NewCookieStore
    /\ jar = [c \in Clients |-> NoCookie]
    /\ pending = [c \in Clients |-> NoRequest]
    /\ resp = [c \in Clients |-> NotServed]
    /\ loggedIn = [c \in Clients |-> FALSE]

----------------------------------------------------------------------------
\* Concurrent calls: the supervisor methods step by step, on one handlerKey,
\* with the handlers map and the handler objects held by reference

Callers == {"t1", "t2"}

Free == "free"

Methods == {"StartHandlers", "UpdateNetwork", "StoreNetwork", "DeleteNetwork",
            "StopNetwork", "StopHandlers", "GetNetworksWithHealth"}

\* the local state of a call: the method, the statement it is at, the handler
\* its local variable refers to, and the networks StartHandlers has left
Frame(method, pc, ref, left) == [method |-> method, pc |-> pc, ref |-> ref, left |-> left]

Idle == Frame("", "idle", 0, 0)

\* a handler object: the Run tasks alive on it, client.Connected(), Stop was
\* called, and handler.m: held for writing by the handler, and the tasks
\* holding it for reading
Object == [made |-> FALSE, running |-> 0, connected |-> FALSE, stopped |-> FALSE,
           writer |-> FALSE, readers |-> {}]

Refs == 1..MaxHandlers

Made == {h \in Refs : heap[h].made}

\* the reference NewHandler returns
NewRef == CHOOSE h \in Refs \ Made : \A g \in Refs \ Made : h <= g

\* the statements that read, and those that write, s.handlers
MapReads == {"checkIfNetworkRestartNeeded:161", "startNetwork:114",
             "StopAndRemoveNetwork:318", "StopNetwork:309", "StopHandlers:104",
             "GetNetworksWithHealth:402"}

MapWrites == {"StartHandlers:86", "startNetwork:140", "StopAndRemoveNetwork:322"}

SyncInit ==
    /\ call = [p \in Callers |-> Idle]
    /\ lock = Free
    /\ byKey = 0
    /\ heap = [h \in Refs |-> Object]

----------------------------------------------------------------------------
\* State

\* an operation: its input network (nil: called with Channels == nil), what it
\* returned, the repository call that failed, the branch the reconcile took,
\* the handler under the key of the network before the call, and, when the
\* call repeats the previous call, the number of handler calls that one made
Op(op, n, nilc, ret, fail, path, pre, prev) ==
    [op |-> op, net |-> n, nil |-> nilc, ret |-> ret, fail |-> fail,
     path |-> path, pre |-> pre, prev |-> prev, input |-> NoNetwork,
     inits |-> {}]

\* the operation o, whose reconcile had the result R
Reconcile(o, R) == [o EXCEPT !.inits = R.inits]

\* the operation o of StoreNetwork, called with network v
StoreOp(v, o) == [o EXCEPT !.input = v]

NoOp == Op("", NoNetwork, FALSE, "", "none", "", NoHandler, -1)


RECURSIVE Sum(_, _)
Sum(f, S) == IF S = {} THEN 0
             ELSE LET x == CHOOSE y \in S : TRUE IN f[x] + Sum(f, S \ {x})

\* the tasks alive with handlers map HM, orphans O and ex exiting Run tasks
TotalTasks(HM, O, ex) ==
    Sum([k \in handlerKey |-> Tasks(HM[k])], handlerKey)
    + Sum([i \in 1..Len(O) |-> Tasks(O[i])], 1..Len(O)) + ex

Init ==
    /\ \E sc \in Scenarios :
          /\ networks = sc.repo
          /\ channels = [i \in NetIds |-> IF i \in DOMAIN sc.repo THEN sc.rows ELSE <<>>]
          /\ pool = sc.pool
    /\ handlers = [k \in handlerKey |-> NoHandler]
    /\ orphans = <<>>
    /\ exiting = 0
    /\ cmds = <<>>
    /\ last = NoOp
    /\ started = FALSE
    /\ stopping = FALSE
    /\ HttpInit
    /\ announce = NotAnnounced
    /\ SyncInit

\* the handlers part of the state after an operation with result R
Apply(R) ==
    /\ TotalTasks(R.handlers, orphans \o R.lost, exiting + R.exits) <= MaxTasks
    /\ handlers' = R.handlers
    /\ orphans' = orphans \o R.lost
    /\ exiting' = exiting + R.exits
    /\ cmds' = R.cmds

Unchanged == Result(handlers, <<>>, "", <<>>, 0)

----------------------------------------------------------------------------
\* Supervisor operations

RECURSIVE StartLoop(_, _, _)
StartLoop(ids, failIds, R) ==
    IF ids = <<>> THEN R
    ELSE LET i == Head(ids)
             A == AddHandler(networks[i],
                             IF i \in failIds THEN <<>> ELSE channels[i], R.handlers)
         IN  StartLoop(Tail(ids), failIds,
                       Result(A.handlers, R.cmds \o A.cmds, "start",
                              R.lost \o A.lost, 0))

StartHandlers(findFails, failIds) ==
    /\ ~started /\ ~stopping
    /\ LET ids == IF findFails THEN <<>> ELSE FindActiveNetworks
       IN  /\ failIds \subseteq {ids[j] : j \in 1..Len(ids)}
           /\ Apply(StartLoop(ids, failIds, Unchanged))
           /\ last' = Op("StartHandlers", NoNetwork, FALSE, "nil",
                         IF findFails THEN "FindActiveNetworks"
                         ELSE IF failIds # {} THEN "ListChannels" ELSE "none",
                         "start", NoHandler, -1)
    /\ started' = TRUE
    /\ UNCHANGED <<networks, channels, stopping, pool, httpVars, announce, syncVars>>

\* the keys of the map, in a fixed order
KeySeq == <<<<"s1", "a1">>, <<"s1", "a2">>, <<"s2", "a1">>, <<"s2", "a2">>>>

RECURSIVE StopAll(_, _)
StopAll(i, R) ==
    IF i > Len(KeySeq) THEN R
    ELSE IF R.handlers[KeySeq[i]] # NoHandler
         THEN LET c == Cmd(KeySeq[i], "Stop", "", "", TRUE)
              IN  StopAll(i + 1, Result([R.handlers EXCEPT ![KeySeq[i]] = HandlerCall(@, c)],
                                        Append(R.cmds, c), "stop", <<>>, 0))
         ELSE StopAll(i + 1, R)

StopHandlers ==
    /\ ~stopping
    /\ Apply(StopAll(1, Unchanged))
    /\ last' = Op("StopHandlers", NoNetwork, FALSE, "nil", "none", "stop", NoHandler, -1)
    /\ stopping' = TRUE
    /\ UNCHANGED <<networks, channels, started, pool, httpVars, announce, syncVars>>

\* the reconcile of network n with the channel rows ListChannels returns;
\* any subset of its PART and JOIN calls may fail
Reconciles(n, rows) ==
    LET names == {c.arg : c \in {x \in Range(checkIfNetworkRestartNeeded(n, rows, handlers, {}).cmds) :
                                    x.cmd \in {"PART", "JOIN"}}}
    IN  {checkIfNetworkRestartNeeded(n, rows, handlers, failing) : failing \in SUBSET names}

UpdateNetwork(n, nilChannels, fail) ==
    /\ ~stopping
    /\ n.ID \in DOMAIN networks
    /\ nilChannels => n.Channels = <<>>
    /\ fail \in {"none", "StoreNetworkChannels", "UpdateNetwork",
                 "startNetwork.ListChannels"}
    /\ LET chFails == ~nilChannels /\ fail = "StoreNetworkChannels"
           upFails == fail = "UpdateNetwork"
           rows    == IF nilChannels \/ chFails THEN channels[n.ID] ELSE n.Channels
           Rs      == IF chFails \/ upFails THEN {Unchanged}
                      ELSE IF n.Enabled
                           THEN Reconciles(n, IF fail = "startNetwork.ListChannels"
                                              THEN <<>> ELSE rows)
                           ELSE {StopAndRemoveNetwork(KeyOf(n), handlers)}
       IN  /\ fail = "StoreNetworkChannels" => chFails
           /\ \E R \in Rs :
                 /\ fail = "startNetwork.ListChannels" => R.path = "start"
                 /\ Apply(R)
                 /\ last' = Reconcile(Op("UpdateNetwork", n, nilChannels,
                               IF chFails \/ upFails THEN "err" ELSE "nil",
                               fail, R.path, handlers[KeyOf(n)],
                               IF /\ ~(chFails \/ upFails)
                                  /\ last.op = "UpdateNetwork" /\ last.ret = "nil"
                                  /\ last.net = n /\ last.nil = nilChannels
                               THEN Len(cmds) ELSE -1), R)
           /\ channels' = [channels EXCEPT ![n.ID] = rows]
           /\ networks' = IF chFails \/ upFails THEN networks
                          ELSE [networks EXCEPT ![n.ID] = Row(n)]
    /\ UNCHANGED <<started, stopping, pool, httpVars, announce, syncVars>>

DeleteNetwork(id, fail) ==
    /\ ~stopping
    /\ id \in DOMAIN networks
    /\ fail \in {"none", "GetNetworkByID", "ListChannels", "DeleteNetwork"}
    /\ LET getFails == fail \in {"GetNetworkByID", "ListChannels"}
           n        == [networks[id] EXCEPT !.Channels = channels[id]]
           R        == IF getFails THEN Unchanged
                       ELSE StopAndRemoveNetwork(KeyOf(n), handlers)
           deleted  == fail = "none"
       IN  /\ Apply(R)
           /\ networks' = IF deleted
                          THEN [i \in DOMAIN networks \ {id} |-> networks[i]]
                          ELSE networks
           /\ channels' = IF deleted THEN [channels EXCEPT ![id] = <<>>] ELSE channels
           /\ last' = Op("DeleteNetwork", n, FALSE, IF deleted THEN "nil" ELSE "err",
                         fail, R.path, handlers[KeyOf(n)], -1)
    /\ UNCHANGED <<started, stopping, pool, httpVars, announce, syncVars>>

\* StoreNetwork of a network CheckExistingNetwork does not find: the row and
\* its channels are stored; the StoreChannel call number k fails (0: none)
StoreNewNetwork(v, fail, k) ==
    /\ ~stopping
    /\ CheckExistingNetwork(v) = 0
    /\ NetIds \ DOMAIN networks # {}
    /\ fail \in {"none", "CheckExistingNetwork", "StoreNetwork", "StoreChannel"}
    /\ (fail = "StoreChannel") = (k # 0)
    /\ k <= Len(v.Channels)
    /\ LET id     == NewId
           n      == [v EXCEPT !.ID = id]
           stored == fail \notin {"CheckExistingNetwork", "StoreNetwork"}
           upto   == IF k = 0 THEN Len(n.Channels) ELSE k - 1
       IN  /\ networks' = IF stored
                          THEN [i \in DOMAIN networks \cup {id} |->
                                   IF i = id THEN Row(n) ELSE networks[i]]
                          ELSE networks
           /\ channels' = IF stored
                          THEN [channels EXCEPT ![id] = RepoStoreChannels(@, n.Channels, upto)]
                          ELSE channels
           /\ last' = StoreOp(v, Op("StoreNetwork", IF stored THEN n ELSE v, FALSE,
                                    IF fail = "none" THEN "nil" ELSE "err", fail,
                                    "stored", handlers[KeyOf(v)], -1))
    /\ cmds' = <<>>
    /\ UNCHANGED <<handlers, orphans, exiting, started, stopping, pool, httpVars, announce, syncVars>>

\* StoreNetwork of a network CheckExistingNetwork finds: the channels are
\* added to the existing network, which is then reconciled
StoreExistingNetwork(v, fail, k) ==
    /\ ~stopping
    /\ fail \in {"none", "CheckExistingNetwork", "ListChannels", "StoreChannel",
                 "startNetwork.ListChannels"}
    /\ (fail = "StoreChannel") = (k # 0)
    /\ k <= Len(v.Channels)
    /\ CheckExistingNetwork(v) # 0
    /\ LET ex    == CheckExistingNetwork(v)
           existingChannels == IF fail = "ListChannels" THEN <<>> ELSE channels[ex]
           upto  == IF fail = "CheckExistingNetwork" THEN 0
                    ELSE IF k = 0 THEN Len(v.Channels) ELSE k - 1
           rows  == RepoStoreChannels(channels[ex], v.Channels, upto)
           existingNetwork ==
               [networks[ex] EXCEPT !.Channels = existingChannels \o v.Channels]
           Rs    == IF fail \in {"CheckExistingNetwork", "StoreChannel"}
                    THEN {Unchanged}
                    ELSE IF existingNetwork.Enabled
                         THEN Reconciles(existingNetwork,
                                         IF fail = "startNetwork.ListChannels"
                                         THEN <<>> ELSE rows)
                         ELSE {Result(handlers, <<>>, "disabled", <<>>, 0)}
       IN  /\ \E R \in Rs :
                 /\ fail = "startNetwork.ListChannels" => R.path = "start"
                 /\ Apply(R)
                 /\ last' = Reconcile(StoreOp(v, Op("StoreNetwork", existingNetwork, FALSE,
                               IF fail \in {"CheckExistingNetwork", "StoreChannel"}
                               THEN "err" ELSE "nil",
                               fail, R.path, handlers[KeyOf(existingNetwork)], -1)), R)
           /\ channels' = [channels EXCEPT ![ex] = rows]
    /\ UNCHANGED <<networks, started, stopping, pool, httpVars, announce, syncVars>>

----------------------------------------------------------------------------
\* Handler tasks: the Run loop and the restart task of a handler

Task(key, H) ==
    /\ handlers' = [handlers EXCEPT ![key] = H]
    /\ cmds' = <<>>
    /\ last' = NoOp
    /\ UNCHANGED <<networks, channels, orphans, exiting, started, stopping, pool, httpVars, announce, syncVars>>

\* Run connects, registers and joins the enabled channels of its snapshot
Connect(H) == [H EXCEPT !.connected = TRUE, !.joined = JoinSet(H.net)]

RunConnect(key) ==
    /\ handlers[key].running > 0 /\ ~handlers[key].stopped /\ ~handlers[key].connected
    /\ Task(key, Connect(handlers[key]))

\* Run returns an error without having connected
RunFail(key) ==
    /\ handlers[key].running > 0 /\ ~handlers[key].stopped /\ ~handlers[key].connected
    /\ Task(key, [handlers[key] EXCEPT !.running = @ - 1])

\* Run returns after Stop (StopHandlers leaves the handler in the map)
RunExit(key) ==
    /\ handlers[key].running > 0 /\ handlers[key].stopped
    /\ Task(key, [handlers[key] EXCEPT !.running = @ - 1])

\* a transport error: the session is lost, Run goes on to reconnect
Disconnect(key) ==
    /\ handlers[key].connected
    /\ Task(key, [handlers[key] EXCEPT !.connected = FALSE, !.joined = {}])

\* the restart task: disconnect; Run reconnects with the latest snapshot
Restart(key) ==
    /\ handlers[key].restarts > 0
    /\ Task(key, IF handlers[key].stopped
                 THEN [handlers[key] EXCEPT !.restarts = @ - 1]
                 ELSE [handlers[key] EXCEPT !.restarts = @ - 1,
                                            !.connected = FALSE, !.joined = {}])

\* the Run task of a stopped and removed handler returns
RemovedExit ==
    /\ exiting > 0
    /\ exiting' = exiting - 1
    /\ cmds' = <<>>
    /\ last' = NoOp
    /\ UNCHANGED <<networks, channels, handlers, orphans, started, stopping, pool, httpVars, announce, syncVars>>

\* the Run task of a handler that is no longer in the map connects
OrphanConnect(i) ==
    /\ ~orphans[i].connected
    /\ orphans' = [orphans EXCEPT ![i] = Connect(@)]
    /\ cmds' = <<>>
    /\ last' = NoOp
    /\ UNCHANGED <<networks, channels, handlers, exiting, started, stopping, pool, httpVars, announce, syncVars>>

----------------------------------------------------------------------------

Next ==
    \/ \E f \in BOOLEAN, ids \in SUBSET NetIds : StartHandlers(f, ids)
    \/ StopHandlers
    \/ \E v \in pool, id \in NetIds, nilc \in BOOLEAN,
          fail \in {"none", "StoreNetworkChannels", "UpdateNetwork",
                    "startNetwork.ListChannels"} :
          UpdateNetwork([v EXCEPT !.ID = id], nilc, fail)
    \/ \E id \in NetIds,
          fail \in {"none", "GetNetworkByID", "ListChannels", "DeleteNetwork"} :
          DeleteNetwork(id, fail)
    \/ \E v \in pool,
          fail \in {"none", "CheckExistingNetwork", "StoreNetwork", "StoreChannel"},
          k \in 0..2 : StoreNewNetwork(v, fail, k)
    \/ \E v \in pool,
          fail \in {"none", "CheckExistingNetwork", "ListChannels", "StoreChannel",
                    "startNetwork.ListChannels"},
          k \in 0..2 : StoreExistingNetwork(v, fail, k)
    \/ \E key \in handlerKey : RunConnect(key)
    \/ \E key \in handlerKey : RunFail(key)
    \/ \E key \in handlerKey : RunExit(key)
    \/ \E key \in handlerKey : Disconnect(key)
    \/ \E key \in handlerKey : Restart(key)
    \/ RemovedExit
    \/ \E i \in 1..Len(orphans) : OrphanConnect(i)

Spec == Init /\ [][Next]_vars

----------------------------------------------------------------------------
\* HTTP requests: a client sends the cookie it holds and keeps the cookie
\* the response sets; the requests of different clients are served
\* concurrently

\* the client keeps the cookie of a Set-Cookie header
Receive(c, served) ==
    /\ resp' = [resp EXCEPT ![c] = served]
    /\ jar' = [jar EXCEPT ![c] = IF served.response.cookie.set
                                 THEN served.response.cookie ELSE @]

\* POST /login up to the call of cookieStore.Get: a body that does not
\* decode is answered at once
PostLoginBegin(c, decodes, valid, proto) ==
    /\ pending[c] = NoRequest
    /\ LET r == LoginRequest(decodes, valid, proto, jar[c])
       IN  IF ~decodes
           THEN /\ Receive(c, Served("login", r, jar[c], Response(400, NoCookie, FALSE)))
                /\ UNCHANGED <<cookieStore, pending, loggedIn>>
           ELSE /\ cookieStore' = loginOptions(r, cookieStore)
                /\ pending' = [pending EXCEPT ![c] = r]
                /\ UNCHANGED <<jar, resp, loggedIn>>
    /\ UNCHANGED <<ircVars, announce, syncVars>>

\* POST /login from cookieStore.Get to the response
PostLoginEnd(c) ==
    /\ pending[c] # NoRequest
    /\ LET r == pending[c]
           response == loginSession(r, cookieStore)
       IN  /\ Receive(c, Served("login", r, jar[c], response))
           /\ loggedIn' = [loggedIn EXCEPT ![c] = IF r.valid THEN TRUE ELSE @]
    /\ pending' = [pending EXCEPT ![c] = NoRequest]
    /\ UNCHANGED <<cookieStore, ircVars, announce, syncVars>>

PostLogout(c) ==
    /\ pending[c] = NoRequest
    /\ Receive(c, Served("logout", NoRequest, jar[c], logout(jar[c], cookieStore)))
    /\ loggedIn' = [loggedIn EXCEPT ![c] = FALSE]
    /\ UNCHANGED <<cookieStore, pending, ircVars, announce, syncVars>>

GetTest(c) ==
    /\ pending[c] = NoRequest
    /\ Receive(c, Served("test", NoRequest, jar[c], test(jar[c], cookieStore)))
    /\ UNCHANGED <<cookieStore, pending, loggedIn, ircVars, announce, syncVars>>

HttpNext ==
    \/ \E c \in Clients, decodes \in BOOLEAN, valid \in BOOLEAN, proto \in Protos :
          PostLoginBegin(c, decodes, valid, proto)
    \/ \E c \in Clients : PostLoginEnd(c)
    \/ \E c \in Clients : PostLogout(c)
    \/ \E c \in Clients : GetTest(c)

\* the HTTP server starts on a service with no network
HttpStart ==
    /\ networks = Repo({})
    /\ channels = [i \in NetIds |-> <<>>]
    /\ pool = {}
    /\ handlers = [k \in handlerKey |-> NoHandler]
    /\ orphans = <<>>
    /\ exiting = 0
    /\ cmds = <<>>
    /\ last = NoOp
    /\ started = FALSE
    /\ stopping = FALSE
    /\ HttpInit
    /\ announce = NotAnnounced
    /\ SyncInit

HttpSpec == HttpStart /\ [][HttpNext]_vars

----------------------------------------------------------------------------
\* Announce parsing: a line arrives on a channel and is parsed with the
\* definition of an indexer

ParseAnnounce ==
    /\ announce.line # "" /\ announce.outcome = NotParsed
    /\ announce' = [announce EXCEPT !.outcome =
                        ParseLine(DefinitionOf(announce.indexer), announce.line,
                                  announce.settings)]
    /\ UNCHANGED <<ircVars, httpVars, syncVars>>

ParseNext == ParseAnnounce

ParseStart ==
    /\ \E id \in {"redacted", "digitalcore"}, l \in AnnounceLines :
          \E settings \in SettingsOf(id) :
              announce = Announce(id, l[1], l[2], settings, NotParsed)
    /\ networks = Repo({})
    /\ channels = [i \in NetIds |-> <<>>]
    /\ pool = {}
    /\ handlers = [k \in handlerKey |-> NoHandler]
    /\ orphans = <<>>
    /\ exiting = 0
    /\ cmds = <<>>
    /\ last = NoOp
    /\ started = FALSE
    /\ stopping = FALSE
    /\ HttpInit
    /\ SyncInit

ParseSpec == ParseStart /\ [][ParseNext]_vars

----------------------------------------------------------------------------
\* Concurrent calls: the statements of the supervisor methods that lock,
\* unlock, read or write s.handlers or launch Run, and the handler tasks

At(p, pc) == call[p].pc = pc

Goto(p, pc) == [call EXCEPT ![p].pc = pc]

Found(p, pc) == [call EXCEPT ![p].pc = pc, ![p].ref = byKey]

Return(p) == [call EXCEPT ![p] = Idle]

\* a task calls a method of the service; the networks are all of the one key
Call(p) ==
    /\ At(p, "idle")
    /\ \E m \in Methods, enabled \in BOOLEAN, found \in 1..2 :
          call' = [call EXCEPT ![p] =
              CASE m = "StartHandlers" -> Frame(m, "StartHandlers:71", 0, found)
                [] m = "UpdateNetwork" ->
                      Frame(m, IF enabled THEN "checkIfNetworkRestartNeeded:161"
                               ELSE "StopAndRemoveNetwork:318", 0, 0)
                [] m = "StoreNetwork" -> Frame(m, "checkIfNetworkRestartNeeded:161", 0, 0)
                [] m = "DeleteNetwork" -> Frame(m, "StopAndRemoveNetwork:318", 0, 0)
                [] m = "StopNetwork" -> Frame(m, "StopNetwork:309", 0, 0)
                [] m = "StopHandlers" -> Frame(m, "StopHandlers:104", 0, 0)
                [] OTHER -> Frame(m, "GetNetworksWithHealth:402", 0, 0)]
    /\ UNCHANGED <<lock, byKey, heap, ircVars, httpVars, announce>>

\* s.lock.Lock()
Lock(p) ==
    /\ \E from \in {"StartHandlers", "startNetwork"} :
          /\ At(p, from \o (IF from = "StartHandlers" THEN ":71" ELSE ":127"))
          /\ call' = Goto(p, from \o (IF from = "StartHandlers" THEN ":86" ELSE ":140"))
    /\ lock = Free
    /\ Made # Refs
    /\ lock' = p
    /\ UNCHANGED <<byKey, heap, ircVars, httpVars, announce>>

\* handler := NewHandler(...); s.handlers[key] = handler
Store(p) ==
    /\ \E from \in {"StartHandlers", "startNetwork"} :
          /\ At(p, from \o (IF from = "StartHandlers" THEN ":86" ELSE ":140"))
          /\ call' = [call EXCEPT ![p].ref = NewRef,
                                  ![p].pc = from \o (IF from = "StartHandlers"
                                                     THEN ":87" ELSE ":141")]
    /\ heap' = [heap EXCEPT ![NewRef].made = TRUE]
    /\ byKey' = NewRef
    /\ UNCHANGED <<lock, ircVars, httpVars, announce>>

\* s.lock.Unlock()
Unlock(p) ==
    /\ \E from \in {"StartHandlers", "startNetwork"} :
          /\ At(p, from \o (IF from = "StartHandlers" THEN ":87" ELSE ":141"))
          /\ call' = Goto(p, from \o (IF from = "StartHandlers" THEN ":93" ELSE ":147"))
    /\ lock' = Free
    /\ UNCHANGED <<byKey, heap, ircVars, httpVars, announce>>

\* go handler.Run(), and the next network of the loop of StartHandlers
StartHandlersRun(p) ==
    /\ At(p, "StartHandlers:93")
    /\ heap' = [heap EXCEPT ![call[p].ref].running = @ + 1]
    /\ call' = IF call[p].left > 1
               THEN [call EXCEPT ![p].pc = "StartHandlers:71", ![p].left = @ - 1]
               ELSE Return(p)
    /\ UNCHANGED <<lock, byKey, ircVars, httpVars, announce>>

\* existingHandler, found := s.handlers[key]: found, the reconcile goes on
\* with calls on the handler; else it calls startNetwork
ReconcileLookup(p) ==
    /\ At(p, "checkIfNetworkRestartNeeded:161")
    /\ call' = IF byKey # 0 THEN Return(p) ELSE Found(p, "startNetwork:114")
    /\ UNCHANGED <<lock, byKey, heap, ircVars, httpVars, announce>>

\* startNetwork: existingHandler, found := s.handlers[key]
StartNetworkLookup(p) ==
    /\ At(p, "startNetwork:114")
    /\ call' = Found(p, IF byKey # 0 THEN "startNetwork:117" ELSE "startNetwork:127")
    /\ UNCHANGED <<lock, byKey, heap, ircVars, httpVars, announce>>

\* if !existingHandler.client.Connected() { go existingHandler.Run() }
StartNetworkRerun(p) ==
    /\ At(p, "startNetwork:117")
    /\ IF heap[call[p].ref].connected
       THEN UNCHANGED heap
       ELSE /\ heap[call[p].ref].running < MaxRuns
            /\ heap' = [heap EXCEPT ![call[p].ref].running = @ + 1]
    /\ call' = Return(p)
    /\ UNCHANGED <<lock, byKey, ircVars, httpVars, announce>>

\* startNetwork: go handler.Run()
StartNetworkRun(p) ==
    /\ At(p, "startNetwork:147")
    /\ heap' = [heap EXCEPT ![call[p].ref].running = @ + 1]
    /\ call' = Return(p)
    /\ UNCHANGED <<lock, byKey, ircVars, httpVars, announce>>

\* handler, found := s.handlers[key] of StopNetwork and StopAndRemoveNetwork,
\* and the range over s.handlers of StopHandlers
StopLookup(p) ==
    /\ \E from \in {"StopNetwork:309", "StopAndRemoveNetwork:318", "StopHandlers:104"} :
          /\ At(p, from)
          /\ call' = IF byKey = 0 THEN Return(p)
                     ELSE Found(p, CASE from = "StopNetwork:309" -> "StopNetwork:310"
                                     [] from = "StopAndRemoveNetwork:318" ->
                                            "StopAndRemoveNetwork:319"
                                     [] OTHER -> "StopHandlers:106")
    /\ UNCHANGED <<lock, byKey, heap, ircVars, httpVars, announce>>

\* handler.Stop()
Stop(p) ==
    /\ \E from \in {"StopNetwork:310", "StopAndRemoveNetwork:319", "StopHandlers:106"} :
          /\ At(p, from)
          /\ call' = IF from = "StopAndRemoveNetwork:319"
                     THEN Goto(p, "StopAndRemoveNetwork:322") ELSE Return(p)
    /\ heap' = [heap EXCEPT ![call[p].ref].stopped = TRUE]
    /\ UNCHANGED <<lock, byKey, ircVars, httpVars, announce>>

\* delete(s.handlers, key)
Delete(p) ==
    /\ At(p, "StopAndRemoveNetwork:322")
    /\ byKey' = 0
    /\ call' = Return(p)
    /\ UNCHANGED <<lock, heap, ircVars, httpVars, announce>>

\* handler, ok := s.handlers[key]; if ok { if handler.client.Connected() {
HealthLookup(p) ==
    /\ At(p, "GetNetworksWithHealth:402")
    /\ call' = IF byKey = 0 THEN Return(p)
               ELSE Found(p, IF heap[byKey].connected THEN "GetNetworksWithHealth:406"
                             ELSE "GetNetworksWithHealth:436")
    /\ UNCHANGED <<lock, byKey, heap, ircVars, httpVars, announce>>

\* handler.m.RLock()
HealthRLock(p) ==
    /\ At(p, "GetNetworksWithHealth:406")
    /\ ~heap[call[p].ref].writer
    /\ heap' = [heap EXCEPT ![call[p].ref].readers = @ \cup {p}]
    /\ call' = Goto(p, "GetNetworksWithHealth:407")
    /\ UNCHANGED <<lock, byKey, ircVars, httpVars, announce>>

\* the reads of handler.connected and handler.connectedSince, and
\* handler.m.RUnlock()
HealthRead(p) ==
    /\ At(p, "GetNetworksWithHealth:407")
    /\ heap' = [heap EXCEPT ![call[p].ref].readers = @ \ {p}]
    /\ call' = Goto(p, "GetNetworksWithHealth:436")
    /\ UNCHANGED <<lock, byKey, ircVars, httpVars, announce>>

\* chan1, ok := handler.channelHealth[name]
HealthChannel(p) ==
    /\ At(p, "GetNetworksWithHealth:436")
    /\ call' = Return(p)
    /\ UNCHANGED <<lock, byKey, heap, ircVars, httpVars, announce>>

\* a Run task of the handler takes handler.m for writing
HandlerLock(h) ==
    /\ heap[h].running > 0 /\ ~heap[h].stopped
    /\ ~heap[h].writer /\ heap[h].readers = {}
    /\ heap' = [heap EXCEPT ![h].writer = TRUE]
    /\ UNCHANGED <<call, lock, byKey, ircVars, httpVars, announce>>

\* holding handler.m, the task writes connected, connectedSince and
\* channelHealth, and unlocks
HandlerWrite(h) ==
    /\ heap[h].writer
    /\ heap' = [heap EXCEPT ![h].writer = FALSE, ![h].connected = ~heap[h].stopped]
    /\ UNCHANGED <<call, lock, byKey, ircVars, httpVars, announce>>

\* a Run task of a stopped handler disconnects and returns
HandlerExit(h) ==
    /\ heap[h].stopped /\ heap[h].running > 0
    /\ ~heap[h].writer /\ heap[h].readers = {}
    /\ heap' = [heap EXCEPT ![h].running = @ - 1, ![h].connected = FALSE]
    /\ UNCHANGED <<call, lock, byKey, ircVars, httpVars, announce>>

SyncNext ==
    \/ \E p \in Callers :
          \/ Call(p)
          \/ Lock(p)
          \/ Store(p)
          \/ Unlock(p)
          \/ StartHandlersRun(p)
          \/ ReconcileLookup(p)
          \/ StartNetworkLookup(p)
          \/ StartNetworkRerun(p)
          \/ StartNetworkRun(p)
          \/ StopLookup(p)
          \/ Stop(p)
          \/ Delete(p)
          \/ HealthLookup(p)
          \/ HealthRLock(p)
          \/ HealthRead(p)
          \/ HealthChannel(p)
    \/ \E h \in Refs :
          \/ HandlerLock(h)
          \/ HandlerWrite(h)
          \/ HandlerExit(h)

SyncStart ==
    /\ SyncInit
    /\ networks = Repo({})
    /\ channels = [i \in NetIds |-> <<>>]
    /\ pool = {}
    /\ handlers = [k \in handlerKey |-> NoHandler]
    /\ orphans = <<>>
    /\ exiting = 0
    /\ cmds = <<>>
    /\ last = NoOp
    /\ started = FALSE
    /\ stopping = FALSE
    /\ HttpInit
    /\ announce = NotAnnounced

SyncSpec == SyncStart /\ [][SyncNext]_vars

----------------------------------------------------------------------------
\* Properties

Keys(HM) == {k \in handlerKey : HM[k] # NoHandler}

\* the handlers that have not been stopped, in the map or out of it
LiveHandlers ==
    {handlers[k] : k \in {j \in Keys(handlers) : ~handlers[j].stopped}}
    \cup Range(orphans)

\* no two enabled persisted networks have the same key (data model)
UniqueKeys ==
    \A i, j \in DOMAIN networks :
        (i # j /\ networks[i].Enabled /\ networks[j].Enabled)
            => KeyOf(networks[i]) # KeyOf(networks[j])

Reconciled(op) ==
    /\ last.op = op /\ last.ret = "nil"
    /\ last.path \in {"start", "rerun", "running", "restart", "live", "idle"}

\* C1: after every supervisor operation, a persisted network with
\* enabled=false has no entry in the handlers map, neither under its current
\* key nor as a handler that was created for it under another key.
C1_DisabledHasNoHandler ==
    \A i \in DOMAIN networks :
        ~networks[i].Enabled =>
            /\ handlers[KeyOf(networks[i])] = NoHandler
            /\ \A k \in Keys(handlers) : handlers[k].net.ID # i

\* C2: once StartHandlers has run and while the keys of the enabled networks
\* are unique, after every operation that did not fail each enabled persisted
\* network has a handler under its key and exactly one live handler was
\* created for it.
C2_EnabledHasOneHandler ==
    (started /\ ~stopping /\ UniqueKeys /\ last.op # "" /\ last.fail = "none") =>
        \A i \in DOMAIN networks :
            networks[i].Enabled =>
                /\ handlers[KeyOf(networks[i])] # NoHandler
                /\ Cardinality({H \in LiveHandlers : H.net.ID = i}) = 1

\* C3: after UpdateNetwork or StoreNetwork reconciled a network on its
\* connected handler and every PART and JOIN succeeded, the handler is joined
\* to exactly the lowercased names of the enabled channels of the network.
C3_JoinedEqualsEnabledChannels ==
    ((Reconciled("UpdateNetwork") \/ Reconciled("StoreNetwork"))
        /\ last.path = "live" /\ \A c \in Range(cmds) : c.ok) =>
        handlers[KeyOf(last.net)].joined = JoinSet(last.net)

\* C4: when StoreNetwork of a network that did not exist and is enabled
\* returns nil, a handler is in the map under the key of the network and its
\* Run task has been launched.
C4_StoreNewStartsHandler ==
    (last.op = "StoreNetwork" /\ last.path = "stored" /\ last.ret = "nil"
        /\ last.net.Enabled) =>
        /\ handlers[KeyOf(last.net)] # NoHandler
        /\ handlers[KeyOf(last.net)].running > 0

OnlyPasswordDiffers(snap, n) ==
    /\ snap.Password # n.Password
    /\ [snap EXCEPT !.Password = n.Password] = n

C5_Case ==
    /\ Reconciled("UpdateNetwork")
    /\ last.net.Enabled
    /\ last.pre # NoHandler /\ last.pre.connected
    /\ OnlyPasswordDiffers(last.pre.net, last.net)

\* C5: an UpdateNetwork on an enabled network with a connected handler whose
\* snapshot differs from the network in the NickServ password only makes one
\* call on the handler, HandleNickServIdentify(account, new password), and
\* the handler stays in the map, connected, not stopped and without a
\* restart task.
C5_PasswordChangeIdentifies ==
    C5_Case =>
        /\ cmds = <<Cmd(KeyOf(last.net), "IDENTIFY", last.net.Account,
                        last.net.Password, TRUE)>>
        /\ handlers[KeyOf(last.net)] = SetNetwork(last.pre, last.net)

C5_Witness ==
    /\ C5_Case
    /\ Len(cmds) = 1 /\ cmds[1].cmd = "IDENTIFY" /\ cmds[1].arg2 = "p2"

\* C6: an UpdateNetwork that returns nil right after an UpdateNetwork of the
\* same network that returned nil makes no call on any handler.
C6_SecondReconcileIsSilent ==
    (last.op = "UpdateNetwork" /\ last.prev >= 0) =>
        /\ cmds = <<>>
        /\ handlers[KeyOf(last.net)] = last.pre

C6_Witness ==
    /\ last.op = "UpdateNetwork" /\ last.prev > 0
    /\ last.path = "live"
    /\ cmds = <<>>

\* C7: in every reachable handlers map and for every key k,
\* StopAndRemoveNetwork(k) leaves no entry under k and the other entries as
\* they were, a second StopAndRemoveNetwork(k) changes nothing and stops no
\* handler, and for a key without entry the first call does the same.
C7_StopAndRemoveIdempotent ==
    \A k \in handlerKey :
        LET r1 == StopAndRemoveNetwork(k, handlers)
            r2 == StopAndRemoveNetwork(k, r1.handlers)
        IN  /\ r1.handlers[k] = NoHandler
            /\ \A j \in handlerKey \ {k} : r1.handlers[j] = handlers[j]
            /\ r2.handlers = r1.handlers
            /\ r2.cmds = <<>>
            /\ handlers[k] = NoHandler => (r1.handlers = handlers /\ r1.cmds = <<>>)
            /\ handlers[k] # NoHandler => Len(r1.cmds) = 1

C7_Witness ==
    /\ last.path = "remove"
    /\ Len(cmds) = 1 /\ cmds[1].cmd = "Stop"
    /\ handlers[KeyOf(last.net)] = NoHandler
    /\ Keys(handlers) # {}

\* C8: when a repository call of StoreNetwork, UpdateNetwork or DeleteNetwork
\* failed, the operation made no call on a handler and left the handlers map
\* as it was.
C8_RepoFailureTouchesNothing ==
    (last.op \in {"StoreNetwork", "UpdateNetwork", "DeleteNetwork"}
        /\ last.fail # "none") =>
        /\ cmds = <<>>
        /\ handlers[KeyOf(last.net)] = last.pre

\* C9: when StopHandlers has returned, no Run task is alive.
C9_StopHandlersWaits ==
    last.op = "StopHandlers" => TotalTasks(handlers, orphans, exiting) = 0

\* C10: an UpdateNetwork of an enabled network whose handler is in the map
\* with no Run task alive and no session launches Run on that handler.
C10_FailedStartIsRetried ==
    (Reconciled("UpdateNetwork") /\ last.net.Enabled
        /\ last.pre # NoHandler /\ ~last.pre.connected /\ ~last.pre.stopped
        /\ last.pre.running = 0) =>
        /\ handlers[KeyOf(last.net)].running > 0
        /\ \E c \in Range(cmds) : c.cmd = "Run"

\* the positions of the Run calls of the last operation
RunCalls == {j \in 1..Len(cmds) : cmds[j].cmd = "Run"}

\* C11: when StartHandlers has returned and FindActiveNetworks did not fail,
\* every enabled persisted network has an entry in the handlers map under its
\* key, and StartHandlers launched as many Run tasks as it put entries in the
\* map: no two Run tasks were launched under one key, so none runs for a
\* handler that is no longer in the map.
C11_StartHandlersOneTaskPerEntry ==
    (last.op = "StartHandlers" /\ last.fail # "FindActiveNetworks") =>
        /\ \A i \in DOMAIN networks :
              networks[i].Enabled => handlers[KeyOf(networks[i])] # NoHandler
        /\ Cardinality(RunCalls) = Cardinality({cmds[j].key : j \in RunCalls})
        /\ \A j \in RunCalls : handlers[cmds[j].key] # NoHandler

\* the channels of a sequence with the number of times each occurs
ChannelBag(chs) ==
    [c \in Range(chs) |-> Cardinality({i \in 1..Len(chs) : chs[i] = c})]

\* C12: when StoreNetwork(n) has returned nil and no repository call failed,
\* GetNetworkByID of the network
\* it stored (the new row, or the existing network CheckExistingNetwork
\* found) returns the fields of n, and its channels are the channels of n,
\* each once.
C12_StoreThenGetRoundTrip ==
    (last.op = "StoreNetwork" /\ last.ret = "nil" /\ last.fail = "none") =>
        LET id  == last.net.ID
            got == GetNetworkByID(id)
        IN  /\ Row(got) = Row([last.input EXCEPT !.ID = id])
            /\ ChannelBag(got.Channels) = ChannelBag(last.input.Channels)

\* C13: the response to the last POST /login of a client: 400 for a body that
\* does not decode, without a call of the auth service and without a cookie;
\* 401 for rejected credentials, without a cookie, and the client holds the
\* session it held before; 204 for accepted credentials, with a session
\* cookie whose authenticated value is true.
C13_LoginStatus ==
    \A c \in Clients :
        resp[c].kind = "login" =>
            LET r == resp[c].req
                a == resp[c].response
            IN  /\ ~r.decodes =>
                      (a = Response(400, NoCookie, FALSE) /\ jar[c] = resp[c].before)
                /\ (r.decodes /\ ~r.valid) =>
                      (a = Response(401, NoCookie, TRUE) /\ jar[c] = resp[c].before)
                /\ (r.decodes /\ r.valid) =>
                      /\ a.status = 204 /\ a.called
                      /\ a.cookie.set /\ a.cookie.authenticated = "true"
                      /\ jar[c] = a.cookie

C13_Witness ==
    \E c, d \in Clients :
        /\ resp[c].kind = "login" /\ resp[c].response.status = 401
        /\ jar[c].set /\ jar[c].authenticated = "false"
        /\ resp[d].kind = "login" /\ resp[d].response.status = 204

\* C14: the last GET /test of a client was answered 204 when the last login
\* of the client succeeded and no logout followed it, and 403 otherwise.
C14_TestFollowsSession ==
    \A c \in Clients :
        resp[c].kind = "test" =>
            resp[c].response.status = (IF loggedIn[c] THEN 204 ELSE 403)

C14_Witness ==
    \E c, d \in Clients :
        /\ resp[c].kind = "test" /\ resp[c].response.status = 204
        /\ resp[d].kind = "test" /\ resp[d].response.status = 403
        /\ jar[d].set /\ jar[d].authenticated = "false"

\* C15: the session cookie of the last successful login of a client is
\* HttpOnly, and it is Secure with SameSite=Strict when the request carried
\* X-Forwarded-Proto: https, and not Secure with SameSite=Lax otherwise.
C15_CookieFollowsRequest ==
    \A c \in Clients :
        (resp[c].kind = "login" /\ resp[c].response.cookie.set) =>
            resp[c].response.cookie.attrs =
                (IF resp[c].req.proto = "https"
                 THEN Options(TRUE, "Strict", TRUE)
                 ELSE Options(TRUE, "Lax", FALSE))

Scenario1Line ==
    "Artist - Album [2008] [Single] - FLAC / Lossless / Log / 100% / Cue / CD - https://redacted.ch/torrents.php?id=123 / https://redacted.ch/torrents.php?action=download&id=123 - hip.hop,rhythm.and.blues,2000s"

Scenario2Line ==
    "NEW TORRENT in Movies/XviD :: This.is.my.Movie.2019.BRRip.XviD.AC3-iND :: https://digitalcore.club/api/v1/torrents/download/00000"

Parsed(id) == announce.indexer = id /\ announce.outcome # NotParsed

\* C16: the line of scenario 1 parsed with the redacted definition and the
\* settings authkey AK, torrent_pass TP is a release with torrentName
\* "Artist - Album", year "2008", category "Single", tags
\* "hip.hop,rhythm.and.blues,2000s" and the URL of the scenario; and the URL
\* of every release of the redacted definition is the captured baseUrl
\* followed by "&authkey=", the authkey, "&torrent_pass=" and the
\* torrent_pass of the settings.
C16_RedactedParse ==
    Parsed("redacted") =>
        LET out == announce.outcome
        IN  /\ (announce.line = Scenario1Line
                 /\ announce.settings = [authkey |-> "AK", torrent_pass |-> "TP"]) =>
                   /\ out.status = "Release"
                   /\ out.vars.torrentName = "Artist - Album"
                   /\ out.vars.year = "2008"
                   /\ out.vars.category = "Single"
                   /\ out.vars.tags = "hip.hop,rhythm.and.blues,2000s"
                   /\ out.url = "https://redacted.ch/torrents.php?action=download&id=123&authkey=AK&torrent_pass=TP"
            /\ out.status = "Release" =>
                   out.url = out.vars.baseUrl
                             \o "&authkey=" \o Lookup(announce.settings, "authkey")
                             \o "&torrent_pass="
                             \o Lookup(announce.settings, "torrent_pass")

C16_Witness ==
    /\ Parsed("redacted")
    /\ announce.line = Scenario1Line
    /\ announce.settings = [authkey |-> "AK", torrent_pass |-> "TP"]
    /\ announce.outcome.status = "Release"

\* C17: the line of scenario 2 parsed with the digitalcore definition and the
\* setting passkey PK is a release with category "Movies/XviD", torrentName
\* "This.is.my.Movie.2019.BRRip.XviD.AC3-iND" and the URL of the scenario;
\* and in every release of the digitalcore definition torrentId is the last
\* path segment of the announced link and the URL is the captured baseUrl,
\* "/", that torrentId, "/" and the passkey.
C17_DigitalcoreParse ==
    Parsed("digitalcore") =>
        LET out == announce.outcome
        IN  /\ (announce.line = Scenario2Line
                 /\ announce.settings = [passkey |-> "PK"]) =>
                   /\ out.status = "Release"
                   /\ out.vars.category = "Movies/XviD"
                   /\ out.vars.torrentName = "This.is.my.Movie.2019.BRRip.XviD.AC3-iND"
                   /\ out.url = "https://digitalcore.club/api/v1/torrents/download/00000/PK"
            /\ out.status = "Release" =>
                   /\ out.vars.torrentId = announce.parts.torrentId
                   /\ out.url = out.vars.baseUrl \o "/" \o announce.parts.torrentId
                                 \o "/" \o Lookup(announce.settings, "passkey")

C17_Witness ==
    /\ Parsed("digitalcore")
    /\ announce.line = Scenario2Line
    /\ announce.settings = [passkey |-> "PK"]
    /\ announce.outcome.status = "Release"

\* the transport fields of the spec: server, port, TLS, server password and
\* invite command
TransportDiffers(snap, n) ==
    \/ snap.Server # n.Server
    \/ snap.Port # n.Port
    \/ snap.TLS # n.TLS
    \/ snap.Pass # n.Pass
    \/ snap.InviteCommand # n.InviteCommand

\* an UpdateNetwork of an enabled network reconciled it with a handler that
\* was connected
LiveUpdate ==
    /\ Reconciled("UpdateNetwork")
    /\ last.net.Enabled
    /\ last.pre # NoHandler /\ last.pre.connected

\* C18: an UpdateNetwork of an enabled network whose connected handler has a
\* snapshot that differs from the network in a transport field makes one
\* call on the handler, Restart, and leaves the handler with the network as
\* its snapshot and one more restart task.
C18_TransportChangeRestarts ==
    (LiveUpdate /\ TransportDiffers(last.pre.net, last.net)) =>
        /\ cmds = <<Cmd(KeyOf(last.net), "Restart", "", "", TRUE)>>
        /\ handlers[KeyOf(last.net)] =
               [SetNetwork(last.pre, last.net) EXCEPT !.restarts = @ + 1]

\* C19: a reconcile that restarts the handler makes no other call on it: no
\* HandleNickChange, HandleNickServIdentify, HandlePartChannel or
\* HandleJoinChannel, whatever else differs between snapshot and network.
C19_RestartIssuesNothingElse ==
    last.path = "restart" =>
        /\ cmds = <<Cmd(KeyOf(last.net), "Restart", "", "", TRUE)>>
        /\ handlers[KeyOf(last.net)].joined = last.pre.joined

C19_Witness ==
    /\ last.path = "restart"
    /\ last.pre.net.Password # last.net.Password
    /\ channelsToJoin(last.pre.net, last.net) # <<>>
    /\ channelsToLeave(last.pre.net, last.net) # <<>>
    /\ Len(cmds) = 1

ChannelNames(chs) == {chs[i].Name : i \in 1..Len(chs)}

\* the positions of the calls c of the last operation on channel name
CallsOn(c, name) == {j \in 1..Len(cmds) : cmds[j].cmd = c /\ cmds[j].arg = name}

\* C20: a reconcile on a connected handler with snapshot channels H and
\* network channels N, without a transport, nick or password change, calls
\* HandlePartChannel once for each channel of H \ N and for no other,
\* HandleJoinChannel once for each channel of N \ H, with its password, and
\* for no other, every PART before every JOIN, and nothing else.
C20_ChannelDelta ==
    (last.path = "live" /\ last.pre.net.Password = last.net.Password) =>
        LET H == ChannelNames(last.pre.net.Channels)
            N == ChannelNames(last.net.Channels)
        IN  /\ \A j \in 1..Len(cmds) : cmds[j].cmd \in {"PART", "JOIN"}
            /\ \A name \in H \cup N :
                  /\ Cardinality(CallsOn("PART", name)) =
                        (IF name \in H \ N THEN 1 ELSE 0)
                  /\ Cardinality(CallsOn("JOIN", name)) =
                        (IF name \in N \ H THEN 1 ELSE 0)
            /\ \A j \in 1..Len(cmds) :
                  cmds[j].cmd = "JOIN" =>
                      \E i \in 1..Len(last.net.Channels) :
                          /\ last.net.Channels[i].Name = cmds[j].arg
                          /\ last.net.Channels[i].Password = cmds[j].arg2
            /\ \A i, j \in 1..Len(cmds) :
                  (cmds[i].cmd = "PART" /\ cmds[j].cmd = "JOIN") => i < j

LowerNames(chs) == {ToLower(chs[i].Name) : i \in 1..Len(chs)}

\* C21: a reconcile on a connected handler whose snapshot channels and the
\* channels of the network have the same names up to letter case calls
\* neither HandlePartChannel nor HandleJoinChannel.
C21_ChannelNamesIgnoreCase ==
    (last.path = "live"
        /\ LowerNames(last.pre.net.Channels) = LowerNames(last.net.Channels)) =>
        \A j \in 1..Len(cmds) : cmds[j].cmd \notin {"PART", "JOIN"}

\* C22: when a PART or JOIN of a reconcile fails, every channel to leave and
\* every channel to join still has its PART or JOIN called, the snapshot of
\* the handler is the network, InitIndexers is called on the handler and
\* the operation returns nil.
C22_ChannelFailureDoesNotAbort ==
    (last.path = "live" /\ \E j \in 1..Len(cmds) : ~cmds[j].ok) =>
        LET key   == KeyOf(last.net)
            leave == channelsToLeave(last.pre.net, last.net)
            join  == channelsToJoin(last.pre.net, last.net)
        IN  /\ \A i \in 1..Len(leave) : CallsOn("PART", leave[i].Name) # {}
            /\ \A i \in 1..Len(join) : CallsOn("JOIN", join[i].Name) # {}
            /\ GetNetwork(handlers[key]) = last.net
            /\ key \in last.inits
            /\ last.ret = "nil"

C22_Witness ==
    /\ last.op = "UpdateNetwork" /\ last.path = "live"
    /\ Len(cmds) = 2
    /\ cmds[1].cmd = "PART" /\ ~cmds[1].ok
    /\ cmds[2].cmd = "JOIN"
    /\ GetNetwork(handlers[KeyOf(last.net)]) = last.net

\* the access to s.handlers the task p is about to make
MapAccess(p) ==
    IF call[p].pc \in MapWrites THEN "write"
    ELSE IF call[p].pc \in MapReads THEN "read" ELSE "none"

\* C23: no task is about to write s.handlers while another task is about to
\* read or write it without holding service.lock.
C23_MapAccessUnderLock ==
    \A p, q \in Callers :
        (p # q /\ MapAccess(p) = "write" /\ MapAccess(q) # "none") => lock = q

\* C24: while GetNetworksWithHealth reads connected and connectedSince of a
\* handler or looks up its channelHealth, it holds handler.m for reading, and
\* the handler is not writing them.
C24_HealthReadUnderRLock ==
    \A p \in Callers :
        call[p].pc \in {"GetNetworksWithHealth:407", "GetNetworksWithHealth:436"} =>
            /\ p \in heap[call[p].ref].readers
            /\ ~heap[call[p].ref].writer

\* C25: after UpdateNetwork returned nil for an enabled network whose key had
\* a handler entry, the snapshot of the handler under the key is the
\* network, whether the client of the handler was connected or not.
C25_SnapshotFollowsUpdate ==
    (last.op = "UpdateNetwork" /\ last.ret = "nil" /\ last.net.Enabled
        /\ last.pre # NoHandler) =>
        GetNetwork(handlers[KeyOf(last.net)]) = last.net

OnlyAccountDiffers(snap, n) ==
    /\ snap.Account # n.Account
    /\ [snap EXCEPT !.Account = n.Account] = n

\* C26: an UpdateNetwork of an enabled network that differs from the snapshot
\* of a connected handler only in the NickServ account calls HandleNickChange
\* with the new account on that handler, calls no Run, Restart or Stop, and
\* leaves the handlers map with the entries it had.
C26_AccountChangeIsNickChange ==
    [][\A k \in handlerKey :
          (/\ last'.op = "UpdateNetwork" /\ last'.ret = "nil" /\ last'.net.Enabled
           /\ handlers[k] # NoHandler /\ handlers[k].connected
           /\ OnlyAccountDiffers(handlers[k].net, last'.net)) =>
              /\ \E j \in 1..Len(cmds') :
                    /\ cmds'[j].key = k /\ cmds'[j].cmd = "NICK"
                    /\ cmds'[j].arg = last'.net.Account
              /\ \A j \in 1..Len(cmds') : cmds'[j].cmd \notin {"Run", "Restart", "Stop"}
              /\ {h \in handlerKey : handlers'[h] # NoHandler}
                    = {h \in handlerKey : handlers[h] # NoHandler}]_vars

\* C27: when DeleteNetwork returns nil the row of the network is gone and no
\* handler is stored under its key; when it returns an error the row and the
\* handler the key had are both still there or both gone.
C27_DeleteIsAllOrNothing ==
    (last.op = "DeleteNetwork" /\ last.pre # NoHandler) =>
        LET row     == last.net.ID \in DOMAIN networks
            handler == handlers[KeyOf(last.net)] # NoHandler
        IN  IF last.ret = "nil" THEN ~row /\ ~handler ELSE row <=> handler

\* C28: every handler of the handlers map is stored under the key made of the
\* Server and the NickServ account of its snapshot.
C28_KeyMatchesSnapshot ==
    \A k \in handlerKey :
        handlers[k] # NoHandler =>
            /\ k[1] = GetNetwork(handlers[k]).Server
            /\ k[2] = GetNetwork(handlers[k]).Account

C28_Witness ==
    /\ last.path \in {"live", "restart"}
    /\ last.pre.net # last.net
    /\ GetNetwork(handlers[<<last.net.Server, last.net.Account>>]) = last.net
    /\ \E k \in handlerKey : k[2] = "a2" /\ handlers[k] # NoHandler

\* C29: every handler that has a Run task and was not stopped is the handler
\* stored in the handlers map under its key.
C29_NoOrphanSessions ==
    \A h \in Refs : (heap[h].running > 0 /\ ~heap[h].stopped) => byKey = h

\* C30: no handler has more than one Run task alive.
C30_OneRunPerHandler ==
    \A h \in Refs : heap[h].running <= 1

====
